---------------------------- MODULE Spec2Model ----------------------------
(***************************************************************************)
(* Model of pkg/migrate/migrate.go: the migration engine Migrate, its lock *)
(* file (loadLockFile / writeLockFile), the directory discovery            *)
(* (getDirFiles / extractNumber) and the apply loop (doMigrate /           *)
(* migrateDir).                                                            *)
(*                                                                         *)
(* Strings are sequences of one-character strings, compared byte-wise as   *)
(* Go compares them.  A Go slice is a record [isNil, elems], because       *)
(* Migrate tests `results != nil`.                                         *)
(***************************************************************************)
EXTENDS Integers, Sequences, FiniteSets, TLC

VARIABLES
    files,      \* the file system: directory -> set of directory entries
    content,    \* file path -> version of the file's bytes
    lockFile,   \* the lock file on disk
    db,         \* the database: file path -> number of successful executions
    clock,      \* the wall clock; it advances with every Migrate call
    last,       \* what the most recent Migrate call did and returned
    added,      \* whether an entry appeared since that call
    edited,     \* whether a file's bytes changed since that call
    dirListing, \* what the most recent separate getDirFiles call returned
    procs       \* concurrent Migrate calls: process -> where it is, what it holds

vars ==
    <<files, content, lockFile, db, clock, last, added, edited, dirListing, procs>>

----------------------------------------------------------------------------
(* Bounds of the model. *)

MaxCalls == 2
MaxEdits == 1
MaxEntries == 4
MaxRuns == 2

----------------------------------------------------------------------------
(* Strings. *)

\* Byte value of the characters that occur in the modelled names.
Ord(c) ==
    CASE c = "." -> 46 [] c = "/" -> 47
      [] c = "0" -> 48 [] c = "1" -> 49 [] c = "2" -> 50 [] c = "3" -> 51
      [] c = "4" -> 52 [] c = "5" -> 53 [] c = "6" -> 54 [] c = "7" -> 55
      [] c = "8" -> 56 [] c = "9" -> 57
      [] c = "L" -> 76 [] c = "Q" -> 81 [] c = "S" -> 83
      [] c = "-" -> 45
      [] c = "a" -> 97 [] c = "b" -> 98 [] c = "k" -> 107 [] c = "l" -> 108
      [] c = "o" -> 111 [] c = "q" -> 113 [] c = "s" -> 115 [] c = "t" -> 116
      [] c = "x" -> 120

Digits == {"0", "1", "2", "3", "4", "5", "6", "7", "8", "9"}

MinOf(a, b) == IF a < b THEN a ELSE b

\* Go's s < t on strings: byte-wise lexicographic order.
StrLess(s, t) ==
    \/ Len(s) < Len(t) /\ SubSeq(t, 1, Len(s)) = s
    \/ \E i \in 1..MinOf(Len(s), Len(t)) :
          /\ SubSeq(s, 1, i - 1) = SubSeq(t, 1, i - 1)
          /\ Ord(s[i]) < Ord(t[i])

\* regex.FindString with ^\d+ : the longest leading run of decimal digits.
RECURSIVE FindString(_)
FindString(s) ==
    IF s = <<>> \/ s[1] \notin Digits THEN <<>>
    ELSE <<s[1]>> \o FindString(Tail(s))

RECURSIVE StripZeros(_)
StripZeros(d) ==
    IF Len(d) > 1 /\ d[1] = "0" THEN StripZeros(Tail(d)) ELSE d

MaxInt64 == <<"9","2","2","3","3","7","2","0","3","6","8","5","4","7","7","5","8","0","7">>

\* strconv.Atoi on a run of digits.  The int is kept as its canonical decimal
\* digits (no leading zeros), which order as the integers do; a value above
\* the largest int64 is the range error.
Atoi(match) ==
    LET n == StripZeros(match) IN
    IF Len(n) > Len(MaxInt64) \/ (Len(n) = Len(MaxInt64) /\ StrLess(MaxInt64, n))
    THEN [num |-> <<"0">>, err |-> TRUE]
    ELSE [num |-> n, err |-> FALSE]

\* num1 < num2 on ints kept as canonical digits.
IntLess(m, n) == Len(m) < Len(n) \/ (Len(m) = Len(n) /\ StrLess(m, n))

extractNumber(s) ==
    LET match == FindString(s) IN
    IF match = <<>> THEN [num |-> <<"0">>, isNum |-> FALSE]
    ELSE IF Atoi(match).err THEN [num |-> <<"0">>, isNum |-> FALSE]
    ELSE [num |-> Atoi(match).num, isNum |-> TRUE]

\* Mutant of less: a name with a number is before a name without one.
lessNumberedFirst(name1, name2) ==
    IF extractNumber(name1).isNum /\ extractNumber(name2).isNum
    THEN IntLess(extractNumber(name1).num, extractNumber(name2).num)
    ELSE IF extractNumber(name1).isNum # extractNumber(name2).isNum
    THEN extractNumber(name1).isNum
    ELSE StrLess(name1, name2)

\* The comparator handed to sort.Slice in getDirFiles.
less(name1, name2) ==
    LET n1 == extractNumber(name1)
        n2 == extractNumber(name2)
    IN  IF n1.isNum /\ n2.isNum THEN IntLess(n1.num, n2.num)
        ELSE StrLess(name1, name2)

\* filepath.Ext: the suffix beginning at the last dot, empty without a dot.
RECURSIVE Ext(_)
Ext(name) ==
    IF name = <<>> THEN <<>>
    ELSE IF \E i \in 2..Len(name) : name[i] = "." THEN Ext(Tail(name))
    ELSE IF name[1] = "." THEN name
    ELSE <<>>

\* path.Join(dir, name) for a clean dir and a single name element.
Join(dir, name) == dir \o <<"/">> \o name

----------------------------------------------------------------------------
(* The fixture: directories, entry names, paths. *)

DirA == <<"a">>
DirB == <<"b">>
Dirs == {DirA, DirB}

Name1Sql == <<"1", ".", "s", "q", "l">>
Name2Sql == <<"2", ".", "s", "q", "l">>
Name10Sql == <<"1", "0", ".", "s", "q", "l">>
Name3Txt == <<"3", ".", "t", "x", "t">>
Name4Sql == <<"4", ".", "s", "q", "l">>
Name5SQL == <<"5", ".", "S", "Q", "L">>

ExtSql == <<".", "s", "q", "l">>
ExtTxt == <<".", "t", "x", "t">>

File(name) == [name |-> name, isDir |-> FALSE]
SubDir(name) == [name |-> name, isDir |-> TRUE]

Names == {Name1Sql, Name2Sql, Name10Sql, Name3Txt, Name4Sql, Name5SQL}
Paths == {Join(d, n) : d \in Dirs, n \in Names}

LockPath == <<"l", "o", "c", "k">>

\* Names for the study of the discovery order: equal numbers written
\* differently, a number beyond the range of int, names without a number
\* that sort below and above the digits.
Name01Sql == <<"0", "1", ".", "s", "q", "l">>
NameBigSql ==
    <<"1","0","0","0","0","0","0","0","0","0","0","0","0","0","0","0","0","0","0","0",
      ".", "s", "q", "l">>
NameASql == <<"a", ".", "s", "q", "l">>
NameDashSql == <<"-", "1", ".", "s", "q", "l">>
SortNames ==
    {Name1Sql, Name01Sql, Name2Sql, Name10Sql, NameBigSql, NameASql, NameDashSql}

AllNames == Names \cup SortNames

\* The string operations on the fixture's names, evaluated once.
NameBefore == [a \in AllNames, b \in AllNames |-> StrLess(a, b)]
NameLess == [a \in AllNames, b \in AllNames |-> less(a, b)]
NameExt == [n \in AllNames |-> Ext(n)]


----------------------------------------------------------------------------
(* Go values: slices, Result, Lock, errors. *)

NilSlice == [isNil |-> TRUE, elems |-> <<>>]
MakeSlice == [isNil |-> FALSE, elems |-> <<>>]

\* append(s, t...): appending nothing returns s itself, nil included.
GoAppend(s, t) ==
    IF t.elems = <<>> THEN s
    ELSE [isNil |-> FALSE, elems |-> s.elems \o t.elems]

\* Mutant of Contains: every extension is recognized.
ContainsAnything(s, x) == TRUE

\* slices.Contains
Contains(s, x) == \E i \in 1..Len(s.elems) : s.elems[i] = x

NoErr == [kind |-> "none", target |-> <<>>]
Error(kind, target) == [kind |-> kind, target |-> target]

\* time.Now() carries a monotonic reading beside the wall clock.
Now == [wall |-> clock, mono |-> TRUE]

Result(fp, ts, sum) == [Filepath |-> fp, Timestamp |-> ts, Sum |-> sum]

\* The zero value Lock{}.
LockZero == [Migrations |-> NilSlice]

defaultFileExtensions == [isNil |-> FALSE, elems |-> <<ExtSql>>]

Configs ==
    { [Dirs |-> <<DirA>>, FileExtensions |-> NilSlice],
      [Dirs |-> <<DirA, DirB>>, FileExtensions |-> NilSlice],
      [Dirs |-> <<DirA, DirA>>, FileExtensions |-> NilSlice],
      [Dirs |-> <<DirA, DirB>>,
       FileExtensions |-> [isNil |-> FALSE, elems |-> <<ExtSql, ExtTxt>>]] }

----------------------------------------------------------------------------
(* What the environment may do to one call: the one operation, if any, that *)
(* fails (listing a directory, hashing, reading or executing a file), and   *)
(* how the write of the lock file ends.                                     *)

NoFault == [kind |-> "none", target |-> <<>>]
Faults ==
    {NoFault}
    \cup {[kind |-> "exec", target |-> Join(d, n)] :
                d \in Dirs, n \in {Name1Sql, Name2Sql}}
    \cup {[kind |-> k, target |-> Join(DirA, Name2Sql)] : k \in {"sum", "read"}}
    \cup {[kind |-> "list", target |-> d] : d \in Dirs}

WriteOutcomes == {"ok", "failOpen", "failPartial"}

\* At most one operation of a call fails.
Injections ==
    {[fault |-> f, write |-> "ok"] : f \in Faults}
    \cup {[fault |-> NoFault, write |-> w] : w \in WriteOutcomes}

----------------------------------------------------------------------------
(* The lock file: JSON on disk. *)

\* hex(sha256(bytes)): distinct contents have distinct digests.
Sha256Hex(bytes) == <<"sha256", bytes>>

\* Result.Timestamp is written as RFC 3339 text: the wall clock only.
MarshalResult(r) ==
    [filepath |-> r.Filepath, timestamp |-> r.Timestamp.wall, sum |-> r.Sum]

\* Mutant of UnmarshalResult: the timestamp is not read back.
UnmarshalResultZeroTime(j) ==
    Result(j.filepath, [wall |-> 0, mono |-> FALSE], j.sum)

UnmarshalResult(j) ==
    Result(j.filepath, [wall |-> j.timestamp, mono |-> FALSE], j.sum)

\* json.MarshalIndent(lock): a nil slice is written as null.
Marshal(lock) ==
    [null |-> lock.Migrations.isNil,
     migrations |-> [i \in 1..Len(lock.Migrations.elems) |->
                        MarshalResult(lock.Migrations.elems[i])]]

\* Decoder.Decode into a zero Lock.
Unmarshal(json) ==
    [Migrations |->
        [isNil |-> json.null,
         elems |-> [i \in 1..Len(json.migrations) |->
                        UnmarshalResult(json.migrations[i])]]]

NullJson == [null |-> TRUE, migrations |-> <<>>]
NoLockFile == [state |-> "missing", json |-> NullJson]
LockFileOf(json) == [state |-> "ok", json |-> json]

\* Mutant of loadLockFile: a missing lock file is an error.
loadLockFileMissingFails(f) ==
    IF f.state = "ok" THEN [lock |-> Unmarshal(f.json), err |-> NoErr]
    ELSE IF f.state = "malformed"
    THEN [lock |-> LockZero, err |-> Error("parsing lock file", LockPath)]
    ELSE [lock |-> LockZero, err |-> Error("reading lockfile", LockPath)]

loadLockFile(f) ==
    IF f.state = "missing" THEN [lock |-> LockZero, err |-> NoErr]
    ELSE IF f.state = "unreadable"
    THEN [lock |-> LockZero, err |-> Error("reading lockfile", LockPath)]
    ELSE IF f.state = "malformed"
    THEN [lock |-> LockZero, err |-> Error("parsing lock file", LockPath)]
    ELSE [lock |-> Unmarshal(f.json), err |-> NoErr]

\* Mutant of writeLockFile: the write succeeds without replacing the content.
writeLockFileKeepsOld(f, lock, outcome) ==
    IF outcome = "ok" THEN [file |-> f, err |-> NoErr]
    ELSE IF outcome = "failOpen"
    THEN [file |-> f, err |-> Error("write", LockPath)]
    ELSE [file |-> [state |-> "malformed", json |-> NullJson],
          err |-> Error("write", LockPath)]

\* os.WriteFile replaces the content; it can fail before touching the file
\* (open) or after truncating it (a short write leaves unparsable content).
writeLockFile(f, lock, outcome) ==
    IF outcome = "ok"
    THEN [file |-> LockFileOf(Marshal(lock)), err |-> NoErr]
    ELSE IF outcome = "failOpen"
    THEN [file |-> f, err |-> Error("write", LockPath)]
    ELSE [file |-> [state |-> "malformed", json |-> NullJson],
          err |-> Error("write", LockPath)]

\* Mutant of lockHasFile: an entry counts only while its checksum is the
\* file's present one.
lockHasFileBySum(lock, filepath) ==
    \E i \in 1..Len(lock.Migrations.elems) :
        /\ filepath = lock.Migrations.elems[i].Filepath
        /\ Sha256Hex(content[filepath]) = lock.Migrations.elems[i].Sum

lockHasFile(lock, filepath) ==
    \E i \in 1..Len(lock.Migrations.elems) :
        filepath = lock.Migrations.elems[i].Filepath

----------------------------------------------------------------------------
(* Checksum and discovery. *)

calculateSum(fp, fault) ==
    IF fault = [kind |-> "sum", target |-> fp]
    THEN [sum |-> <<>>, err |-> Error("sum", fp)]
    ELSE [sum |-> Sha256Hex(content[fp]), err |-> NoErr]

\* os.ReadDir returns the entries sorted by filename.
RECURSIVE ReadDir(_)
ReadDir(entries) ==
    IF entries = {} THEN <<>>
    ELSE LET first == CHOOSE e \in entries :
                        \A o \in entries \ {e} : NameBefore[e.name, o.name]
         IN  <<first>> \o ReadDir(entries \ {first})

\* One pass of insertion sort: data[j] sinks while less(data[j], data[j-1]).
RECURSIVE Sink(_, _)
Sink(sorted, e) ==
    IF sorted # <<>> /\ NameLess[e.name, sorted[Len(sorted)].name]
    THEN Append(Sink(SubSeq(sorted, 1, Len(sorted) - 1), e), sorted[Len(sorted)])
    ELSE Append(sorted, e)

\* sort.Slice on at most 12 elements is an insertion sort.
RECURSIVE InsertionSort(_, _)
InsertionSort(sorted, rest) ==
    IF rest = <<>> THEN sorted
    ELSE InsertionSort(Sink(sorted, Head(rest)), Tail(rest))

getDirFiles(dir, fault) ==
    IF fault = [kind |-> "list", target |-> dir]
    THEN [files |-> NilSlice, err |-> Error("list", dir)]
    ELSE [files |-> [isNil |-> FALSE,
                     elems |-> InsertionSort(<<>>, ReadDir(files[dir]))],
          err |-> NoErr]

----------------------------------------------------------------------------
(* The apply loop. *)

\* The body of migrateDir's loop from entry i on.  acc is what the call has
\* so far: results, the paths it handed to db.Exec, and the error.
RECURSIVE migrateDirLoop(_, _, _, _, _, _, _)
migrateDirLoop(fileExtensions, lock, dir, ents, i, fault, acc) ==
    IF i > Len(ents) THEN acc
    ELSE
      LET dirEntry == ents[i]
          fp == Join(dir, dirEntry.name)
          next == migrateDirLoop(fileExtensions, lock, dir, ents, i + 1, fault, acc)
      IN
      IF dirEntry.isDir THEN next
      ELSE IF ~Contains(fileExtensions, NameExt[dirEntry.name]) THEN next
      ELSE IF lockHasFile(lock, fp) THEN next
      ELSE IF calculateSum(fp, fault).err # NoErr
      THEN [acc EXCEPT !.err = Error("sum", fp)]
      ELSE IF fault = [kind |-> "read", target |-> fp]
      THEN [acc EXCEPT !.err = Error("read", fp)]
      ELSE IF fault = [kind |-> "exec", target |-> fp]
      THEN [acc EXCEPT !.err = Error("exec", fp),
                       !.submitted = Append(@, fp)]
      ELSE migrateDirLoop(fileExtensions, lock, dir, ents, i + 1, fault,
             [acc EXCEPT
                !.results = GoAppend(@, [isNil |-> FALSE, elems |->
                               <<Result(fp, Now, calculateSum(fp, fault).sum)>>]),
                !.submitted = Append(@, fp)])

\* migrateDir after the call of getDirFiles, whose outcome is listing.
migrateDirListed(config, lock, dir, fault, listing) ==
    IF listing.err # NoErr
    THEN [results |-> NilSlice, err |-> listing.err, submitted |-> <<>>]
    ELSE migrateDirLoop(
             IF config.FileExtensions.isNil THEN defaultFileExtensions
             ELSE config.FileExtensions,
             lock, dir, listing.files.elems, 1, fault,
             [results |-> MakeSlice, err |-> NoErr, submitted |-> <<>>])

migrateDir(config, lock, dir, fault) ==
    migrateDirListed(config, lock, dir, fault, getDirFiles(dir, fault))

\* Mutant of doMigrateCollect: the Results of a directory that ended in an
\* error are dropped.
doMigrateCollectDropsFailed(acc, dir, r) ==
    [results |-> IF ~r.results.isNil /\ r.err = NoErr
                 THEN GoAppend(acc.results, r.results)
                 ELSE acc.results,
     err |-> r.err,
     submitted |-> acc.submitted \o r.submitted,
     listed |-> Append(acc.listed, dir)]

\* doMigrate's handling of what migrateDir returned for one directory: r is
\* appended to the results, and an error ends the loop.
doMigrateCollect(acc, dir, r) ==
    [results |-> IF ~r.results.isNil THEN GoAppend(acc.results, r.results)
                 ELSE acc.results,
     err |-> r.err,
     submitted |-> acc.submitted \o r.submitted,
     listed |-> Append(acc.listed, dir)]

\* Mutant of doMigrateLoop: an error does not end the loop.
RECURSIVE doMigrateLoopNoStop(_, _, _, _, _)
doMigrateLoopNoStop(config, lock, i, fault, acc) ==
    IF i > Len(config.Dirs) THEN acc
    ELSE doMigrateLoopNoStop(config, lock, i + 1, fault,
             [results |-> IF ~migrateDir(config, lock, config.Dirs[i], fault).results.isNil
                          THEN GoAppend(acc.results,
                                 migrateDir(config, lock, config.Dirs[i], fault).results)
                          ELSE acc.results,
              err |-> IF acc.err # NoErr THEN acc.err
                      ELSE migrateDir(config, lock, config.Dirs[i], fault).err,
              submitted |-> acc.submitted
                            \o migrateDir(config, lock, config.Dirs[i], fault).submitted,
              listed |-> Append(acc.listed, config.Dirs[i])])

\* doMigrate's loop from configured directory i on.
RECURSIVE doMigrateLoop(_, _, _, _, _)
doMigrateLoop(config, lock, i, fault, acc) ==
    IF i > Len(config.Dirs) \/ acc.err # NoErr THEN acc
    ELSE doMigrateLoop(config, lock, i + 1, fault,
             doMigrateCollect(acc, config.Dirs[i],
                 migrateDir(config, lock, config.Dirs[i], fault)))

\* Mutant of doMigrate: an error discards the Results gathered before it.
doMigrateAllOrNothing(config, lock, fault) ==
    IF doMigrateLoop(config, lock, 1, fault,
          [results |-> MakeSlice, err |-> NoErr, submitted |-> <<>>,
           listed |-> <<>>]).err # NoErr
    THEN [doMigrateLoop(config, lock, 1, fault,
             [results |-> MakeSlice, err |-> NoErr, submitted |-> <<>>,
              listed |-> <<>>]) EXCEPT !.results = NilSlice]
    ELSE doMigrateLoop(config, lock, 1, fault,
             [results |-> MakeSlice, err |-> NoErr, submitted |-> <<>>,
              listed |-> <<>>])

doMigrate(config, lock, fault) ==
    doMigrateLoop(config, lock, 1, fault,
        [results |-> MakeSlice, err |-> NoErr, submitted |-> <<>>, listed |-> <<>>])

----------------------------------------------------------------------------
(* Migrate. *)

\* Mutant of MigrateWritten: the write error is ignored.
MigrateWrittenIgnoresErr(lock, r, w) ==
    [results |-> r.results, err |-> r.err, outcome |-> "returned",
     file |-> w.file, wrote |-> TRUE, writeFailed |-> w.err # NoErr,
     loaded |-> lock, submitted |-> r.submitted, listed |-> r.listed]

\* Migrate after writeLockFile returned w: lines 84-89.  A write error is
\* the panic.
MigrateWritten(lock, r, w) ==
    [results |-> r.results, err |-> r.err,
     outcome |-> IF w.err # NoErr THEN "panicked" ELSE "returned",
     file |-> w.file, wrote |-> TRUE, writeFailed |-> w.err # NoErr,
     loaded |-> lock, submitted |-> r.submitted, listed |-> r.listed]

\* Mutant of MigrateSave: the file is written with the new Results only.
MigrateSaveResultsOnly(lock, r, writeOutcome) ==
    IF ~r.results.isNil
    THEN MigrateWritten(lock, r,
             writeLockFile(lockFile, [Migrations |-> r.results], writeOutcome))
    ELSE [results |-> r.results, err |-> r.err, outcome |-> "returned",
          file |-> lockFile, wrote |-> FALSE, writeFailed |-> FALSE,
          loaded |-> lock, submitted |-> r.submitted, listed |-> r.listed]

\* Migrate after doMigrate returned r: lines 81-89.  writeOutcome is how
\* os.WriteFile ends if it is called.
MigrateSave(lock, r, writeOutcome) ==
    IF ~r.results.isNil
    THEN MigrateWritten(lock, r,
             writeLockFile(lockFile,
                 [Migrations |-> GoAppend(lock.Migrations, r.results)],
                 writeOutcome))
    ELSE [results |-> r.results, err |-> r.err, outcome |-> "returned",
          file |-> lockFile, wrote |-> FALSE, writeFailed |-> FALSE,
          loaded |-> lock, submitted |-> r.submitted, listed |-> r.listed]

\* Migrate once the lock file is loaded: lines 80-89.
MigrateLoaded(config, lock, fault, writeOutcome) ==
    MigrateSave(lock, doMigrate(config, lock, fault), writeOutcome)

\* Mutant of MigrateAfterLoad: a load error is ignored and the run goes on
\* with the empty ledger.
MigrateAfterLoadIgnoresErr(config, ld, fault, writeOutcome) ==
    MigrateLoaded(config, ld.lock, fault, writeOutcome)

\* Migrate after loadLockFile returned ld: lines 76-89.
MigrateAfterLoad(config, ld, fault, writeOutcome) ==
    IF ld.err # NoErr
    THEN [results |-> NilSlice, err |-> ld.err, outcome |-> "returned",
          file |-> lockFile, wrote |-> FALSE, writeFailed |-> FALSE,
          loaded |-> ld.lock, submitted |-> <<>>, listed |-> <<>>]
    ELSE MigrateLoaded(config, ld.lock, fault, writeOutcome)

\* One call of Migrate(db, config): what it returns and what it does.
MigrateCall(config, fault, writeOutcome) ==
    MigrateAfterLoad(config, loadLockFile(lockFile), fault, writeOutcome)

\* How often path p occurs in a sequence of paths.
Count(seq, p) == Cardinality({i \in 1..Len(seq) : seq[i] = p})

\* The paths db.Exec accepted: all that were submitted but a failing last one.
Executed(call) ==
    IF call.err.kind = "exec"
    THEN SubSeq(call.submitted, 1, Len(call.submitted) - 1)
    ELSE call.submitted

NoCall ==
    [called |-> FALSE, config |-> [Dirs |-> <<>>, FileExtensions |-> NilSlice],
     results |-> NilSlice, err |-> NoErr, outcome |-> "none",
     wrote |-> FALSE, writeFailed |-> FALSE,
     loaded |-> LockZero, submitted |-> <<>>, listed |-> <<>>,
     repeats |-> FALSE]

InitFiles ==
    [d \in Dirs |->
        IF d = DirA
        THEN {File(Name1Sql), File(Name2Sql), File(Name10Sql), File(Name3Txt),
              SubDir(Name4Sql), File(Name5SQL)}
        ELSE {File(Name1Sql)}]

\* Entries that may appear later.
Addable == { <<DirB, File(Name2Sql)>> }

\* Files whose bytes may change later.
Editable == { Join(DirA, Name1Sql) }

\* A ledger a run before the first modelled call left behind.
EarlierLedger ==
    [null |-> FALSE,
     migrations |-> << [filepath |-> Join(DirA, Name1Sql), timestamp |-> 0,
                        sum |-> Sha256Hex(0)] >>]

InitLockFiles ==
    { NoLockFile,
      [state |-> "unreadable", json |-> NullJson],
      [state |-> "malformed", json |-> NullJson],
      LockFileOf(EarlierLedger) }

\* No concurrent call is under way.
Procs == {1, 2}
NoProc ==
    [pc |-> "idle", runs |-> 0, done |-> <<>>,
     config |-> [Dirs |-> <<>>, FileExtensions |-> NilSlice],
     lock |-> LockZero,
     r |-> [results |-> NilSlice, err |-> NoErr, submitted |-> <<>>,
            listed |-> <<>>]]
NoProcs == [p \in Procs |-> NoProc]

NoListing == [called |-> FALSE, of |-> {}, names |-> <<>>]

Init ==
    /\ files = InitFiles
    /\ content = [p \in Paths |-> 0]
    /\ lockFile \in InitLockFiles
    /\ db = [p \in Paths |-> 0]
    /\ clock = 1
    /\ last = NoCall
    /\ added = FALSE
    /\ edited = FALSE
    /\ dirListing = NoListing
    /\ procs = NoProcs

Migrate ==
    /\ clock <= MaxCalls
    /\ \E config \in Configs, inj \in Injections :
         \E call \in {MigrateCall(config, inj.fault, inj.write)} :
         /\ lockFile' = call.file
         /\ db' = [p \in Paths |-> db[p] + Count(Executed(call), p)]
         /\ last' = [called |-> TRUE, config |-> config,
                     results |-> call.results, err |-> call.err,
                     outcome |-> call.outcome,
                     wrote |-> call.wrote, writeFailed |-> call.writeFailed,
                     loaded |-> call.loaded, submitted |-> call.submitted,
                     listed |-> call.listed,
                     repeats |-> /\ last.called /\ last.config = config
                                 /\ last.err = NoErr /\ last.outcome = "returned"
                                 /\ ~added]
    /\ clock' = clock + 1
    /\ added' = FALSE
    /\ edited' = FALSE
    /\ UNCHANGED <<files, content, dirListing, procs>>

\* A new entry appears in a configured directory.
AddFile ==
    /\ clock <= MaxCalls
    /\ \E a \in Addable :
         /\ \A e \in files[a[1]] : e.name # a[2].name
         /\ files' = [files EXCEPT ![a[1]] = @ \cup {a[2]}]
    /\ added' = TRUE
    /\ UNCHANGED <<content, lockFile, db, clock, last, edited, dirListing, procs>>

\* The bytes of an existing migration file change; its path does not.
ModifyFile ==
    /\ clock <= MaxCalls
    /\ \E p \in Editable :
         /\ content[p] < MaxEdits
         /\ content' = [content EXCEPT ![p] = @ + 1]
    /\ edited' = TRUE
    /\ UNCHANGED <<files, lockFile, db, clock, last, added, dirListing, procs>>

Next == Migrate \/ AddFile \/ ModifyFile

Spec == Init /\ [][Next]_vars

----------------------------------------------------------------------------
(* Glob mode: the later version of the package, in which a location is a    *)
(* pattern handed to filepath.Glob and Config has IgnoreLockFile.           *)

\* The patterns a/*.sql and b/*.sql, and a malformed one.
PatternA == [dir |-> DirA, suffix |-> ExtSql, bad |-> FALSE]
PatternB == [dir |-> DirB, suffix |-> ExtSql, bad |-> FALSE]
PatternBad == [dir |-> DirA, suffix |-> <<"[">>, bad |-> TRUE]

GlobConfigs ==
    { [Paths |-> <<PatternA>>, IgnoreLockFile |-> FALSE],
      [Paths |-> <<PatternA, PatternB>>, IgnoreLockFile |-> FALSE],
      [Paths |-> <<PatternB, PatternBad, PatternA>>, IgnoreLockFile |-> FALSE],
      [Paths |-> <<PatternA>>, IgnoreLockFile |-> TRUE] }

\* strings.HasSuffix: what the pattern <dir>/*<suffix> asks of a name.
HasSuffix(name, suffix) ==
    /\ Len(name) >= Len(suffix)
    /\ SubSeq(name, Len(name) - Len(suffix) + 1, Len(name)) = suffix

\* Mutant of Glob: the matches are put in the order of getDirFiles.
GlobNumericOrder(pattern, fault) ==
    IF pattern.bad
    THEN [files |-> NilSlice, err |-> Error("glob", pattern.dir)]
    ELSE IF fault = [kind |-> "list", target |-> pattern.dir]
    THEN [files |-> NilSlice, err |-> NoErr]
    ELSE [files |-> [isNil |-> FALSE,
                     elems |-> InsertionSort(<<>>,
                        ReadDir({e \in files[pattern.dir] :
                                    HasSuffix(e.name, pattern.suffix)}))],
          err |-> NoErr]

\* filepath.Glob: ErrBadPattern for a malformed pattern; otherwise the
\* matching names of the directory, directories included, sorted as
\* strings.  A directory that cannot be read gives no match and no error.
Glob(pattern, fault) ==
    IF pattern.bad
    THEN [files |-> NilSlice, err |-> Error("glob", pattern.dir)]
    ELSE IF fault = [kind |-> "list", target |-> pattern.dir]
    THEN [files |-> NilSlice, err |-> NoErr]
    ELSE [files |-> [isNil |-> FALSE,
                     elems |-> ReadDir({e \in files[pattern.dir] :
                                          HasSuffix(e.name, pattern.suffix)})],
          err |-> NoErr]

\* The body of migrateGlob's loop from match i on.  A match that is a
\* directory fails in calculateSum: io.Copy cannot read it.
RECURSIVE migrateGlobLoop(_, _, _, _, _, _)
migrateGlobLoop(lock, dir, ents, i, fault, acc) ==
    IF i > Len(ents) THEN acc
    ELSE
      LET fp == Join(dir, ents[i].name) IN
      IF lockHasFile(lock, fp)
      THEN migrateGlobLoop(lock, dir, ents, i + 1, fault, acc)
      ELSE IF ents[i].isDir \/ calculateSum(fp, fault).err # NoErr
      THEN [acc EXCEPT !.err = Error("sum", fp)]
      ELSE IF fault = [kind |-> "read", target |-> fp]
      THEN [acc EXCEPT !.err = Error("read", fp)]
      ELSE IF fault = [kind |-> "exec", target |-> fp]
      THEN [acc EXCEPT !.err = Error("exec", fp),
                       !.submitted = Append(@, fp)]
      ELSE migrateGlobLoop(lock, dir, ents, i + 1, fault,
             [acc EXCEPT
                !.results = GoAppend(@, [isNil |-> FALSE, elems |->
                               <<Result(fp, Now, calculateSum(fp, fault).sum)>>]),
                !.submitted = Append(@, fp)])

migrateGlobMatched(lock, glob, fault, matched) ==
    IF matched.err # NoErr
    THEN [results |-> NilSlice, err |-> matched.err, submitted |-> <<>>]
    ELSE migrateGlobLoop(lock, glob.dir, matched.files.elems, 1, fault,
             [results |-> MakeSlice, err |-> NoErr, submitted |-> <<>>])

migrateGlob(lock, glob, fault) ==
    migrateGlobMatched(lock, glob, fault, Glob(glob, fault))

\* doMigrate of the glob version: the loop over config.Paths from i on.
RECURSIVE doMigrateGlobs(_, _, _, _, _)
doMigrateGlobs(config, lock, i, fault, acc) ==
    IF i > Len(config.Paths) \/ acc.err # NoErr THEN acc
    ELSE doMigrateGlobs(config, lock, i + 1, fault,
             doMigrateCollect(acc, config.Paths[i],
                 migrateGlob(lock, config.Paths[i], fault)))

\* Migrate of the glob version after doMigrate returned r.
MigrateGlobsSave(config, lock, r, writeOutcome) ==
    IF ~r.results.isNil /\ ~config.IgnoreLockFile
    THEN MigrateWritten(lock, r,
             writeLockFile(lockFile,
                 [Migrations |-> GoAppend(lock.Migrations, r.results)],
                 writeOutcome))
    ELSE [results |-> r.results, err |-> r.err, outcome |-> "returned",
          file |-> lockFile, wrote |-> FALSE, writeFailed |-> FALSE,
          loaded |-> lock, submitted |-> r.submitted, listed |-> r.listed]

MigrateGlobsLoaded(config, ld, fault, writeOutcome) ==
    IF ld.err # NoErr
    THEN [results |-> NilSlice, err |-> ld.err, outcome |-> "returned",
          file |-> lockFile, wrote |-> FALSE, writeFailed |-> FALSE,
          loaded |-> ld.lock, submitted |-> <<>>, listed |-> <<>>]
    ELSE MigrateGlobsSave(config, ld.lock,
             doMigrateGlobs(config, ld.lock, 1, fault,
                 [results |-> MakeSlice, err |-> NoErr, submitted |-> <<>>,
                  listed |-> <<>>]),
             writeOutcome)

\* Mutant of MigrateGlobsCall: the lock file is loaded whatever
\* IgnoreLockFile says.
MigrateGlobsCallAlwaysLoads(config, fault, writeOutcome) ==
    MigrateGlobsLoaded(config, loadLockFile(lockFile), fault, writeOutcome)

\* One call of Migrate(db, config) of the glob version.
MigrateGlobsCall(config, fault, writeOutcome) ==
    MigrateGlobsLoaded(config,
        IF config.IgnoreLockFile THEN [lock |-> LockZero, err |-> NoErr]
        ELSE loadLockFile(lockFile),
        fault, writeOutcome)

GlobInitFiles ==
    [d \in Dirs |->
        IF d = DirA
        THEN {File(Name1Sql), File(Name2Sql), File(Name10Sql), File(Name3Txt)}
        ELSE {File(Name1Sql), SubDir(Name4Sql)}]

GlobInit ==
    /\ files = GlobInitFiles
    /\ content = [p \in Paths |-> 0]
    /\ lockFile \in InitLockFiles
    /\ db = [p \in Paths |-> 0]
    /\ clock = 1
    /\ last = NoCall
    /\ added = FALSE
    /\ edited = FALSE
    /\ dirListing = NoListing
    /\ procs = NoProcs

MigrateGlobs ==
    /\ clock <= MaxCalls
    /\ \E config \in GlobConfigs, inj \in Injections :
         \E call \in {MigrateGlobsCall(config, inj.fault, inj.write)} :
         /\ lockFile' = call.file
         /\ db' = [p \in Paths |-> db[p] + Count(Executed(call), p)]
         /\ last' = [called |-> TRUE, config |-> config, fault |-> inj.fault,
                     results |-> call.results, err |-> call.err,
                     outcome |-> call.outcome,
                     wrote |-> call.wrote, writeFailed |-> call.writeFailed,
                     loaded |-> call.loaded, submitted |-> call.submitted,
                     listed |-> call.listed,
                     repeats |-> /\ last.called /\ last.config = config
                                 /\ last.err = NoErr /\ last.outcome = "returned"
                                 /\ ~added]
    /\ clock' = clock + 1
    /\ added' = FALSE
    /\ edited' = FALSE
    /\ UNCHANGED <<files, content, dirListing, procs>>

GlobNext == MigrateGlobs \/ AddFile \/ ModifyFile

GlobSpec == GlobInit /\ [][GlobNext]_vars

----------------------------------------------------------------------------
(* Concurrent calls: two processes call Migrate on the same lock file and   *)
(* database.  A call is three steps, loadLockFile, doMigrate and            *)
(* writeLockFile, and the steps of the two calls interleave freely: the     *)
(* code takes no file lock and no database lock.                            *)

ConcConfigs ==
    { [Dirs |-> <<DirA>>, FileExtensions |-> NilSlice],
      [Dirs |-> <<DirA, DirB>>, FileExtensions |-> NilSlice] }

ConcInit ==
    /\ files = InitFiles
    /\ content = [p \in Paths |-> 0]
    /\ lockFile = NoLockFile
    /\ db = [p \in Paths |-> 0]
    /\ clock = 1
    /\ last = NoCall
    /\ added = FALSE
    /\ edited = FALSE
    /\ dirListing = NoListing
    /\ procs = NoProcs

\* Mutant of ProcSave: the lock file is read again before it is written.
ProcSaveReloads(p) ==
    MigrateSave(loadLockFile(lockFile).lock, procs[p].r, "ok")

\* Lines 81-89 of Migrate in process p: the ledger it loaded, with its
\* Results appended, is written.
ProcSave(p) == MigrateSave(procs[p].lock, procs[p].r, "ok")

\* Process p enters Migrate and loads the lock file: lines 75-78.
ProcLoadLockFile(p) ==
    /\ procs[p].pc = "idle"
    /\ procs[p].runs < MaxRuns
    /\ \E config \in ConcConfigs :
         \E ld \in {loadLockFile(lockFile)} :
         procs' = [procs EXCEPT ![p] =
                     [@ EXCEPT !.pc = IF ld.err = NoErr THEN "loaded" ELSE "idle",
                               !.runs = @ + 1,
                               !.config = config,
                               !.lock = ld.lock]]
    /\ UNCHANGED <<files, content, lockFile, db, clock, last, added, edited,
                   dirListing>>

\* Process p runs doMigrate with the ledger it loaded: line 80.
ProcDoMigrate(p) ==
    /\ procs[p].pc = "loaded"
    /\ \E r \in {doMigrate(procs[p].config, procs[p].lock, NoFault)} :
         /\ db' = [q \in Paths |-> db[q] + Count(Executed(r), q)]
         /\ procs' = [procs EXCEPT ![p] = [@ EXCEPT !.pc = "migrated", !.r = r]]
    /\ clock' = clock + 1
    /\ UNCHANGED <<files, content, lockFile, last, added, edited, dirListing>>

\* Process p writes the lock file and returns: lines 81-89.
ProcWriteLockFile(p) ==
    /\ procs[p].pc = "migrated"
    /\ \E call \in {ProcSave(p)} :
         /\ lockFile' = call.file
         /\ procs' = [procs EXCEPT ![p] =
                        [@ EXCEPT !.pc = "idle",
                                  !.done = Append(@, Executed(procs[p].r))]]
    /\ UNCHANGED <<files, content, db, clock, last, added, edited, dirListing>>

ConcNext ==
    \E p \in Procs :
        ProcLoadLockFile(p) \/ ProcDoMigrate(p) \/ ProcWriteLockFile(p)

ConcSpec == ConcInit /\ [][ConcNext]_vars

----------------------------------------------------------------------------
(* The discovery order by itself: a directory that fills up entry by entry, *)
(* and getDirFiles called on it.                                            *)

SortInit ==
    /\ files = [d \in Dirs |-> {}]
    /\ content = [p \in Paths |-> 0]
    /\ lockFile = NoLockFile
    /\ db = [p \in Paths |-> 0]
    /\ clock = 1
    /\ last = NoCall
    /\ added = FALSE
    /\ edited = FALSE
    /\ dirListing = NoListing
    /\ procs = NoProcs

CreateEntry ==
    /\ Cardinality(files[DirA]) < MaxEntries
    /\ \E n \in SortNames :
         /\ \A e \in files[DirA] : e.name # n
         /\ files' = [files EXCEPT ![DirA] = @ \cup {File(n)}]
    /\ UNCHANGED <<content, lockFile, db, clock, last, added, edited, dirListing, procs>>

GetDirFiles ==
    /\ \E got \in {getDirFiles(DirA, NoFault)} :
         dirListing' = [called |-> TRUE,
                     of |-> {e.name : e \in files[DirA]},
                     names |-> [i \in 1..Len(got.files.elems) |->
                                   got.files.elems[i].name]]
    /\ UNCHANGED <<files, content, lockFile, db, clock, last, added, edited, procs>>

SortNext == CreateEntry \/ GetDirFiles

SortSpec == SortInit /\ [][SortNext]_vars

----------------------------------------------------------------------------
(* Vocabulary of the properties.  In a step that is a Migrate call, the     *)
(* unprimed files, content, lockFile and db are what the call found, and    *)
(* last' is what it did.                                                    *)

MigrateStep == clock' # clock

Range(seq) == {seq[i] : i \in 1..Len(seq)}

PathsOf(results) == [i \in 1..Len(results) |-> results[i].Filepath]

\* The ledger a lock file holds: none when there is no file.
LedgerOf(f) == IF f.state = "ok" THEN f.json.migrations ELSE <<>>
LedgerPaths(f) == [i \in 1..Len(LedgerOf(f)) |-> LedgerOf(f)[i].filepath]

\* The elements of seq that are in set S, in the order of seq.
RECURSIVE Keep(_, _)
Keep(seq, S) ==
    IF seq = <<>> THEN <<>>
    ELSE IF Head(seq) \in S THEN <<Head(seq)>> \o Keep(Tail(seq), S)
    ELSE Keep(Tail(seq), S)

ExtensionsOf(config) ==
    IF config.FileExtensions.isNil THEN {ExtSql}
    ELSE Range(config.FileExtensions.elems)

\* The candidate files of one directory, in discovery order.
PathsIn(dir, ents) == [i \in 1..Len(ents) |-> Join(dir, ents[i].name)]
Discovered(dir) == PathsIn(dir, getDirFiles(dir, NoFault).files.elems)
CandidatesIn(config, dir) ==
    Keep(Discovered(dir),
         {Join(dir, e.name) : e \in {x \in files[dir] :
              ~x.isDir /\ Ext(x.name) \in ExtensionsOf(config)}})

\* The candidates of directory dir that the ledger does not name.
PendingIn(config, dir, ledgerPaths) ==
    Keep(CandidatesIn(config, dir), Paths \ Range(ledgerPaths))

\* Over the configured directories from the i-th to the j-th, in order.
RECURSIVE PendingFrom(_, _, _, _)
PendingFrom(config, i, j, ledgerPaths) ==
    IF i > j THEN <<>>
    ELSE PendingIn(config, config.Dirs[i], ledgerPaths)
         \o PendingFrom(config, i + 1, j, ledgerPaths)
Pending(config, ledgerPaths) ==
    PendingFrom(config, 1, Len(config.Dirs), ledgerPaths)

\* The first position of p in seq; 0 when it does not occur.
FirstIndex(seq, p) ==
    IF p \in Range(seq) THEN CHOOSE k \in 1..Len(seq) :
                                seq[k] = p /\ \A m \in 1..(k - 1) : seq[m] # p
    ELSE 0

LoadErrors == {"reading lockfile", "parsing lock file"}

----------------------------------------------------------------------------
(* Properties. *)

\* C1: when a Migrate call follows a call with the same configuration that
\* returned without error, and no entry was added in between, it submits
\* no file to the database and returns no Results.
Idempotence ==
    last.repeats => last.submitted = <<>> /\ last.results.elems = <<>>

\* A repeated call whose ledger holds an entry recorded by an earlier call.
IdempotenceWitness ==
    /\ last.repeats
    /\ \E i \in 1..Len(last.loaded.Migrations.elems) :
          /\ last.loaded.Migrations.elems[i].Timestamp.wall >= 1
          /\ db[last.loaded.Migrations.elems[i].Filepath] > 0

\* C2: when the k-th pending file fails in db.Exec and Migrate returns, the
\* lock file holds the prior ledger followed by exactly the Results of the
\* pending files before the k-th, in order; the error names the k-th file;
\* nothing after the k-th is submitted to the database.
PartialFailureDurability ==
    [][ (MigrateStep /\ last'.err.kind = "exec" /\ last'.outcome = "returned") =>
          \E P \in {Pending(last'.config, LedgerPaths(lockFile))} :
          \E k \in {FirstIndex(P, last'.err.target)} :
              /\ k > 0
              /\ last'.submitted = SubSeq(P, 1, k)
              /\ PathsOf(last'.results.elems) = SubSeq(P, 1, k - 1)
              /\ lockFile'.state = "ok"
              /\ LedgerOf(lockFile') =
                    LedgerOf(lockFile) \o
                    [i \in 1..(k - 1) |->
                        [filepath |-> P[i], timestamp |-> clock,
                         sum |-> Sha256Hex(content[P[i]])]]
      ]_vars

\* Three pending files in one directory, the second fails: the first is
\* recorded, the third was never handed to the database.
PartialFailureWitness ==
    /\ last.called /\ last.outcome = "returned"
    /\ last.config.Dirs = <<DirA>> /\ last.config.FileExtensions.isNil
    /\ last.loaded = LockZero
    /\ last.err = Error("exec", Join(DirA, Name2Sql))
    /\ last.submitted = <<Join(DirA, Name1Sql), Join(DirA, Name2Sql)>>
    /\ LedgerPaths(lockFile) = <<Join(DirA, Name1Sql)>>
    /\ db[Join(DirA, Name10Sql)] = 0

\* C3: within one Migrate call no file path is executed against the
\* database more than once, also when it is reachable through two
\* configured locations.
ExecutedAtMostOnce ==
    \A p \in Paths : Count(Executed(last), p) <= 1

\* C4: a Migrate call that returns no new Results does not write the lock
\* file: its content is unchanged, and none is created.
NoResultsNoWrite ==
    [][ (MigrateStep /\ last'.outcome = "returned" /\ last'.results.elems = <<>>)
          => (~last'.wrote /\ lockFile' = lockFile) ]_vars

\* C5: when hashing, reading or executing a file of location i fails, the
\* call ends there: it returns that error with the Results of the pending
\* files of the locations before i and of location i before the failing
\* file, and executes nothing else; no later location is even listed.
StopsAtFirstFailure ==
    [][ (MigrateStep /\ last'.err.kind \in {"sum", "read", "exec"}) =>
          \E i \in 1..Len(last'.config.Dirs) :
            \E before \in {PendingFrom(last'.config, 1, i - 1, LedgerPaths(lockFile))} :
            \E here \in {PendingIn(last'.config, last'.config.Dirs[i],
                                   LedgerPaths(lockFile))} :
            \E k \in {FirstIndex(here, last'.err.target)} :
                /\ k > 0
                /\ last'.err.target \notin Range(before)
                /\ PathsOf(last'.results.elems) = before \o SubSeq(here, 1, k - 1)
                /\ Executed(last') = before \o SubSeq(here, 1, k - 1)
                /\ last'.listed = SubSeq(last'.config.Dirs, 1, i)
                /\ db' = [p \in Paths |->
                            db[p] + Count(before \o SubSeq(here, 1, k - 1), p)]
      ]_vars

\* A read failure in the first of two locations, after a file of that
\* location was executed.
StopsAtFirstFailureWitness ==
    /\ last.called /\ last.err.kind = "read"
    /\ Len(last.config.Dirs) = 2 /\ last.listed = <<DirA>>
    /\ last.results.elems # <<>>
    /\ db[Join(DirB, Name1Sql)] = 0

\* C6: when a call stopped at a file that failed in db.Exec and the next
\* call, with the same configuration and files, returns without error, the
\* second call executes none of the files the first executed, executes the
\* file that failed, and over both calls every submitted file is executed
\* exactly once.
RetryExecutesEachOnce ==
    [][ ( /\ MigrateStep /\ last.called /\ ~added
          /\ last.err.kind = "exec" /\ last.outcome = "returned"
          /\ last'.config = last.config
          /\ last'.err = NoErr /\ last'.outcome = "returned" ) =>
          /\ Range(Executed(last)) \cap Range(last'.submitted) = {}
          /\ last.err.target \in Range(Executed(last'))
          /\ \A p \in Range(last.submitted) \cup Range(last'.submitted) :
                Count(Executed(last) \o Executed(last'), p) = 1
      ]_vars

\* C7: a file whose path the ledger names is skipped whatever its bytes are
\* now: when the recorded checksum differs from the file's present one, the
\* call does not submit the file and leaves its ledger entry as it was.
SkipByPathOnly ==
    [][ (MigrateStep /\ lockFile.state = "ok") =>
          \A i \in 1..Len(LedgerOf(lockFile)) :
            \E entry \in {LedgerOf(lockFile)[i]} :
            entry.sum # Sha256Hex(content[entry.filepath]) =>
              /\ entry.filepath \notin Range(last'.submitted)
              /\ db'[entry.filepath] = db[entry.filepath]
              /\ lockFile'.state = "ok" => LedgerOf(lockFile')[i] = entry
      ]_vars

\* A complete call over a directory holding a recorded file whose bytes
\* changed before the call.
ChangedContentWitness ==
    /\ last.called /\ last.err = NoErr /\ last.outcome = "returned" /\ ~edited
    /\ \E i \in 1..Len(LedgerOf(lockFile)) :
          LET entry == LedgerOf(lockFile)[i] IN
          /\ entry.sum # Sha256Hex(content[entry.filepath])
          /\ entry.filepath \in Range(CandidatesIn(last.config, DirA))
          /\ entry.filepath \notin Range(last.submitted)

\* C8: when files were executed and the write of the lock file fails,
\* Migrate panics; it returns only with every executed file in the lock
\* file.
SaveFailurePanics ==
    (last.called /\ Executed(last) # <<>>) =>
        /\ last.writeFailed => last.outcome = "panicked"
        /\ last.outcome = "returned" =>
              /\ lockFile.state = "ok"
              /\ Range(Executed(last)) \subseteq Range(LedgerPaths(lockFile))

\* A panic that leaves an executed file out of the lock file.
SaveFailureWitness ==
    /\ last.called /\ last.writeFailed /\ last.outcome = "panicked"
    /\ \E p \in Range(Executed(last)) :
          db[p] > 0 /\ p \notin Range(LedgerPaths(lockFile))

\* C9: when the lock file exists and cannot be opened or parsed, Migrate
\* returns that error and nil Results; it lists no directory, submits
\* nothing to the database and does not write the lock file.
LoadFailureReturnsAtOnce ==
    [][ (MigrateStep /\ lockFile.state \in {"unreadable", "malformed"}) =>
          /\ last'.err.kind \in LoadErrors
          /\ last'.outcome = "returned"
          /\ last'.results = NilSlice
          /\ last'.listed = <<>> /\ last'.submitted = <<>>
          /\ ~last'.wrote
          /\ lockFile' = lockFile /\ db' = db
      ]_vars

LoadFailureWitness ==
    /\ last.called /\ last.err.kind = "parsing lock file"
    /\ lockFile.state = "malformed"

\* C10: with no lock file the load gives the empty ledger and no error, and
\* a call that then completes has executed every candidate file of every
\* configured directory, in order.
MissingLockFileIsEmptyLedger ==
    [][ (MigrateStep /\ lockFile.state = "missing") =>
          /\ last'.loaded = LockZero
          /\ last'.err.kind \notin LoadErrors
          /\ last'.err = NoErr =>
                \E P \in {Pending(last'.config, <<>>)} :
                /\ PathsOf(last'.results.elems) = P
                /\ \A p \in Range(P) : db'[p] > db[p]
      ]_vars

\* A first run without lock file that executed the three files of a.
MissingLockFileWitness ==
    /\ last.called /\ clock = 2 /\ last.loaded = LockZero /\ last.err = NoErr
    /\ PathsOf(last.results.elems) =
          <<Join(DirA, Name1Sql), Join(DirA, Name2Sql), Join(DirA, Name10Sql)>>

\* C14: a call executes and records only regular files whose extension is,
\* byte for byte, one of config.FileExtensions, or .sql when that is nil:
\* every path it submits, returns or adds to the ledger is such an entry of
\* a configured directory, and no other path's database count changes.
OnlyRecognizedExtensions ==
    [][ MigrateStep =>
          \E eligible \in {UNION {{Join(d, e.name) :
                  e \in {x \in files[d] :
                           /\ ~x.isDir
                           /\ \/ last'.config.FileExtensions.isNil
                                 /\ NameExt[x.name] = <<".", "s", "q", "l">>
                              \/ \E i \in 1..Len(last'.config.FileExtensions.elems) :
                                    last'.config.FileExtensions.elems[i] = NameExt[x.name]}} :
                  d \in Range(last'.config.Dirs)}} :
            /\ Range(last'.submitted) \subseteq eligible
            /\ Range(PathsOf(last'.results.elems)) \subseteq eligible
            /\ Range(LedgerPaths(lockFile')) \ Range(LedgerPaths(lockFile))
                   \subseteq eligible
            /\ \A p \in Paths \ eligible : db'[p] = db[p]
      ]_vars

\* A complete call with the default extension over directory a, which holds
\* 3.txt, 5.SQL and a subdirectory named 4.sql: none of them was executed.
UnrecognizedExtensionWitness ==
    /\ last.called /\ last.err = NoErr /\ last.outcome = "returned"
    /\ last.config.FileExtensions.isNil /\ last.config.Dirs[1] = DirA
    /\ Len(last.results.elems) >= 3
    /\ {File(Name3Txt), File(Name5SQL), SubDir(Name4Sql)} \subseteq files[DirA]
    /\ db[Join(DirA, Name3Txt)] = 0 /\ db[Join(DirA, Name5SQL)] = 0
    /\ db[Join(DirA, Name4Sql)] = 0

\* C15: in every lock file reached from no lock file or from one without
\* duplicates, no two ledger entries have the same Filepath.
FilepathIsUniqueKey ==
    lockFile.state = "ok" =>
        \A i, j \in 1..Len(LedgerOf(lockFile)) :
            i # j => LedgerOf(lockFile)[i].filepath # LedgerOf(lockFile)[j].filepath

\* C16: when listing location i fails, the call returns that error with the
\* Results of the pending files of the locations before i, which are all it
\* executed and which it has added to the lock file; location i is the last
\* one it tried to list.
DiscoveryFailureKeepsEarlier ==
    [][ (MigrateStep /\ last'.err.kind = "list") =>
          \E i \in {FirstIndex(last'.config.Dirs, last'.err.target)} :
          \E before \in {PendingFrom(last'.config, 1, i - 1, LedgerPaths(lockFile))} :
              /\ i > 0
              /\ last'.outcome = "returned"
              /\ last'.listed = SubSeq(last'.config.Dirs, 1, i)
              /\ last'.submitted = before
              /\ PathsOf(last'.results.elems) = before
              /\ db' = [p \in Paths |-> db[p] + Count(before, p)]
              /\ lockFile'.state = "ok"
              /\ LedgerPaths(lockFile') = LedgerPaths(lockFile) \o before
      ]_vars

\* The second of two locations cannot be listed after files of the first
\* were executed: they are returned and in the lock file, b was not touched.
DiscoveryFailureWitness ==
    /\ last.called /\ last.err = Error("list", DirB)
    /\ last.config.Dirs = <<DirA, DirB>>
    /\ Len(last.results.elems) >= 2
    /\ Range(PathsOf(last.results.elems)) \subseteq Range(LedgerPaths(lockFile))
    /\ \A n \in Names : db[Join(DirB, n)] = 0

LedgerGrowsByResults ==
    [][ (MigrateStep /\ last'.outcome = "returned") =>
          IF last'.err.kind \in LoadErrors
          THEN lockFile' = lockFile /\ last'.results.elems = <<>>
          ELSE \E P \in {Pending(last'.config, LedgerPaths(lockFile))} :
               /\ last'.loaded.Migrations.elems =
                     [i \in 1..Len(LedgerOf(lockFile)) |->
                         UnmarshalResult(LedgerOf(lockFile)[i])]
               /\ PathsOf(last'.results.elems) = Executed(last')
               /\ Executed(last') = SubSeq(P, 1, Len(Executed(last')))
               /\ db' = [p \in Paths |-> db[p] + Count(Executed(last'), p)]
               /\ lockFile'.state = "ok"
               /\ LedgerOf(lockFile') =
                     LedgerOf(lockFile) \o
                     [i \in 1..Len(last'.results.elems) |->
                         MarshalResult(last'.results.elems[i])]
      ]_vars

\* A call over two locations appended its Results, of both locations, to a
\* ledger that already had an entry.
LedgerGrowsWitness ==
    /\ last.called /\ last.outcome = "returned" /\ last.err = NoErr
    /\ last.loaded.Migrations.elems # <<>>
    /\ \E i, j \in 1..Len(last.results.elems) :
          /\ i < j
          /\ last.results.elems[i].Filepath = Join(DirA, Name10Sql)
          /\ last.results.elems[j].Filepath = Join(DirB, Name1Sql)
    /\ Len(LedgerOf(lockFile)) =
          Len(last.loaded.Migrations.elems) + Len(last.results.elems)

----------------------------------------------------------------------------
(* Properties of the discovery order. *)

\* Whether a name begins with a decimal digit, and the integer its leading
\* run of digits denotes, as digits without leading zeros.
HasLeadingNumber(name) == FindString(name) # <<>>
LeadingNumber(name) == StripZeros(FindString(name))

\* C11: when all names of a directory begin with digits and their leading
\* numbers differ, getDirFiles returns them in ascending order of those
\* numbers, whatever their length and leading zeros.
NumericPrefixAscending ==
    ( /\ dirListing.called
      /\ \A n \in dirListing.of : HasLeadingNumber(n)
      /\ \A m, n \in dirListing.of : m # n => LeadingNumber(m) # LeadingNumber(n) )
    => \A i, j \in 1..Len(dirListing.names) :
          i < j => IntLess(LeadingNumber(dirListing.names[i]),
                           LeadingNumber(dirListing.names[j]))

\* C12: on the names of one directory the comparator of getDirFiles is a
\* strict total order: of two different names exactly one is before the
\* other, and the relation is transitive.
ComparatorIsStrictTotalOrder ==
    /\ \A m, n \in dirListing.of : m # n => (NameLess[m, n] # NameLess[n, m])
    /\ \A m, n, o \in dirListing.of :
          (NameLess[m, n] /\ NameLess[n, o]) => NameLess[m, o]

\* C13: two names of which at least one has no leading number are returned
\* in the byte order of the full names, and the comparator differs from
\* that order only on two names that both have a leading number.
MixedNamesLexicographic ==
    dirListing.called =>
        /\ \A i, j \in 1..Len(dirListing.names) :
              (i < j /\ (~HasLeadingNumber(dirListing.names[i])
                         \/ ~HasLeadingNumber(dirListing.names[j])))
              => NameBefore[dirListing.names[i], dirListing.names[j]]
        /\ \A m, n \in dirListing.of :
              NameLess[m, n] # NameBefore[m, n]
              => (HasLeadingNumber(m) /\ HasLeadingNumber(n))

\* A listing of numbered and unnumbered names: -1.sql first, a.sql last,
\* 2.sql before 10.sql between them.
MixedNamesWitness ==
    /\ dirListing.called
    /\ dirListing.names = <<NameDashSql, Name2Sql, Name10Sql, NameASql>>

----------------------------------------------------------------------------
(* Properties of glob mode. *)

\* The paths of directory dir.
InDir(dir) == {Join(dir, n) : n \in Names}

\* The matches of one pattern, in matcher order, that the ledger does not
\* name.
GlobPendingIn(pattern, ledgerPaths) ==
    Keep(PathsIn(pattern.dir, Glob(pattern, NoFault).files.elems),
         Paths \ Range(ledgerPaths))

\* C19: a call in glob mode submits the pending matches of each pattern in
\* the order the matcher returned them, pattern after pattern; the matcher
\* returns the names of a directory in byte order, so a/10.sql is executed
\* before a/2.sql, while getDirFiles on the same directory puts 2.sql
\* first.
GlobOrderNotResorted ==
    [][ (MigrateStep /\ last'.err.kind \notin LoadErrors) =>
          \E ledgerPaths \in {IF last'.config.IgnoreLockFile THEN <<>>
                               ELSE LedgerPaths(lockFile)} :
          \E D \in {Discovered(DirA)} :
              /\ \A k \in 1..Len(last'.config.Paths) :
                    \E pattern \in {last'.config.Paths[k]} :
                    \E here \in {Keep(last'.submitted, InDir(pattern.dir))} :
                       ~pattern.bad =>
                          here = SubSeq(GlobPendingIn(pattern, ledgerPaths),
                                        1, Len(here))
              /\ \A i, j \in 1..Len(last'.submitted) :
                  \A k, l \in 1..Len(last'.config.Paths) :
                    ( /\ i < j
                      /\ last'.submitted[i] \in InDir(last'.config.Paths[k].dir)
                      /\ last'.submitted[j] \in InDir(last'.config.Paths[l].dir)
                      /\ ~last'.config.Paths[k].bad /\ ~last'.config.Paths[l].bad )
                    => k <= l
              /\ \A i, j \in 1..Len(last'.submitted) :
                    ( /\ last'.submitted[i] = Join(DirA, Name10Sql)
                      /\ last'.submitted[j] = Join(DirA, Name2Sql) )
                    => /\ i < j
                       /\ FirstIndex(D, Join(DirA, Name2Sql))
                             < FirstIndex(D, Join(DirA, Name10Sql))
      ]_vars

\* A complete call over a/*.sql that executed 1.sql, 10.sql, 2.sql in that
\* order.
GlobOrderWitness ==
    /\ last.called /\ last.err = NoErr /\ last.outcome = "returned"
    /\ last.config.Paths = <<PatternA>>
    /\ PathsOf(last.results.elems) =
          <<Join(DirA, Name1Sql), Join(DirA, Name10Sql), Join(DirA, Name2Sql)>>
    /\ db[Join(DirA, Name2Sql)] = 1

----------------------------------------------------------------------------
(* Properties of concurrent calls. *)

\* C20: nothing keeps two calls apart, and each works from the ledger it
\* loaded: a call that has loaded executes every candidate that ledger does
\* not name, whatever the other call has executed since, and it writes the
\* ledger it loaded with its own Results appended, whatever the lock file
\* holds by then; and a process that is not in a call can always load.
ConcurrentCallsRace ==
    [][ \A p \in Procs :
          /\ (procs[p].pc = "loaded" /\ procs'[p].pc = "migrated") =>
                /\ Executed(procs'[p].r) =
                      Pending(procs[p].config, PathsOf(procs[p].lock.Migrations.elems))
                /\ db' = [q \in Paths |-> db[q] + Count(Executed(procs'[p].r), q)]
          /\ (procs[p].pc = "migrated" /\ procs'[p].pc = "idle") =>
                /\ lockFile'.state = "ok"
                /\ LedgerPaths(lockFile') =
                      PathsOf(procs[p].lock.Migrations.elems)
                      \o PathsOf(procs[p].r.results.elems)
          /\ (procs[p].pc = "idle" /\ procs[p].runs < MaxRuns) =>
                ENABLED ProcLoadLockFile(p)
      ]_vars

\* Two overlapping calls both executed a/1.sql; the call that wrote last
\* left b/1.sql, which the other had recorded, out of the lock file, and a
\* later call has executed b/1.sql a second time.
LostUpdateWitness ==
    \E p, q \in Procs :
        /\ p # q
        /\ Len(procs[p].done) >= 1 /\ Len(procs[q].done) >= 1
        /\ Join(DirA, Name1Sql) \in Range(procs[p].done[1])
        /\ Join(DirA, Name1Sql) \in Range(procs[q].done[1])
        /\ Join(DirB, Name1Sql) \in Range(procs[q].done[1])
        /\ db[Join(DirA, Name1Sql)] = 2
        /\ procs[q].pc = "migrated"
        /\ Join(DirB, Name1Sql) \in Range(Executed(procs[q].r))
        /\ Join(DirB, Name1Sql) \notin Range(LedgerPaths(lockFile))
        /\ db[Join(DirB, Name1Sql)] = 2

\* All matches of the patterns from the i-th on, in matcher order.
RECURSIVE GlobMatchesFrom(_, _)
GlobMatchesFrom(config, i) ==
    IF i > Len(config.Paths) THEN <<>>
    ELSE GlobPendingIn(config.Paths[i], <<>>) \o GlobMatchesFrom(config, i + 1)

\* C21: a call with IgnoreLockFile neither reads nor writes the lock file:
\* the file is as it was, a malformed or unreadable one gives no error, the
\* run starts from the zero Lock, and a call that completes on readable
\* directories has executed every match; so two such calls in a row, with
\* no entry added in between, return the same paths.
IgnoreLockFileSkipsLedger ==
    [][ (MigrateStep /\ last'.config.IgnoreLockFile) =>
          /\ lockFile' = lockFile
          /\ ~last'.wrote
          /\ last'.outcome = "returned"
          /\ last'.err.kind \notin LoadErrors
          /\ last'.loaded = LockZero
          /\ (last'.err = NoErr /\ last'.fault.kind # "list") =>
                \E M \in {GlobMatchesFrom(last'.config, 1)} :
                /\ PathsOf(last'.results.elems) = M
                /\ db' = [p \in Paths |-> db[p] + Count(M, p)]
          /\ ( /\ last.called /\ last.config = last'.config /\ ~added
                /\ last.err = NoErr /\ last'.err = NoErr
                /\ last.fault.kind # "list" /\ last'.fault.kind # "list" ) =>
                PathsOf(last'.results.elems) = PathsOf(last.results.elems)
      ]_vars

\* Two calls in a row with IgnoreLockFile beside a malformed lock file:
\* both executed the three matches of a/*.sql, the file is still malformed.
IgnoreLockFileWitness ==
    /\ last.called /\ last.repeats /\ last.config.IgnoreLockFile
    /\ last.err = NoErr
    /\ lockFile.state = "malformed"
    /\ Len(last.results.elems) = 3
    /\ \A i \in 1..3 : db[last.results.elems[i].Filepath] = 2

============================================================================
